---- MODULE Spec2Model ----
(***************************************************************************)
(* Model of tickets/views.py: the function views TicketUpdateView and      *)
(* TicketCommentView (with their login_required decorator) acting on the   *)
(* ticket table, and TicketListView.get_queryset as a function of the      *)
(* ticket table and the request.                                           *)
(***************************************************************************)
EXTENDS Integers, Sequences, FiniteSets, TLC

VARIABLES
    tickets,    \* Ticket.objects: pk -> row (submitted_by, assigned_to, status)
    last,       \* the request last handled by a function view, with its response
    saved_by_others, \* the form classes ever saved on a request of a non-admin
    db,         \* Ticket.objects as TicketListView sees it (rows with text fields)
    query,      \* the request of TicketListView: GET["q"] and the URL kwargs
    listing     \* what get_queryset built for that request

vars == <<tickets, last, saved_by_others, db, query, listing>>

\* ------------------------------------------------------------------ bounds
MaxTickets == 1     \* rows in Ticket.objects
MaxLen == 2         \* length of a title, and of the search term q

\* ------------------------------------------------------------------ domains
None == "None"
Anonymous == "AnonymousUser"
Users == {"alice", "bob", "root"}
Admins == {"root"}
\* whom the data of a valid assign form names
Assignees == {"bob"}
\* who submitted each row of the initial table: the users in turn
Submitter(pk) == CASE pk % 3 = 1 -> "alice" [] pk % 3 = 2 -> "bob" [] OTHER -> "root"

TicketIds == 1 .. MaxTickets
\* pk values a URL can carry: the rows, and one pk with no row
Pks == 1 .. (MaxTickets + 1)

\* the actions the URLconf routes, and one string none of the branches names
Actions == {"comment", "accept", "assign", "closed", "reopened", "delete"}

\* utils.is_admin: a predicate of the user alone
is_admin(user) == user \in Admins

\* ------------------------------------------------------------------ requests
\* request.POST: an empty QueryDict is falsy; a non-empty one validates or
\* not (form.is_valid), and for the assign form names the new assignee
EmptyPost == [empty |-> TRUE, valid |-> FALSE, assigned_to |-> None]
Posts ==
    {EmptyPost, [empty |-> FALSE, valid |-> FALSE, assigned_to |-> None]}
    \cup {[empty |-> FALSE, valid |-> TRUE, assigned_to |-> u] : u \in Assignees}

Requests ==
    {[method |-> "GET", POST |-> EmptyPost]}
    \cup {[method |-> "POST", POST |-> p] : p \in Posts}

\* what `last` keeps of request.POST
PostKind(post) ==
    IF post.empty THEN "empty" ELSE IF post.valid THEN "valid" ELSE "invalid"

NoForm == [class |-> None, bound |-> FALSE]

NoRequest ==
    [view |-> None, user |-> None, pk |-> 0, action |-> None,
     method |-> None, post |-> None,
     response |-> None, location |-> 0, template |-> None, form |-> NoForm,
     ctx_ticket |-> 0, ctx_action |-> None, built |-> NoForm, saved |-> <<>>]

\* ------------------------------------------------------------------ forms
\* form.save of the four follow-up forms: the transition each one makes on
\* the ticket row (a comment adds a follow-up and leaves the row as it is)
FormSave(form, ticket, user, action, post) ==
    CASE form.class = "CloseTicketForm" ->
            [ticket EXCEPT !.status = action]
      [] form.class = "AcceptTicketForm" ->
            [ticket EXCEPT !.assigned_to = user, !.status = "accepted"]
      [] form.class = "AssignTicketForm" ->
            [ticket EXCEPT !.assigned_to = post.assigned_to, !.status = "assigned"]
      [] OTHER -> ticket

\* form.is_valid: only a bound form validates, and then as its data decides
is_valid(form, post) == form.bound /\ post.valid

\* ------------------------------------------------------------------ responses
Redirect(pk) ==
    [response |-> "redirect_detail", location |-> pk, template |-> None,
     form |-> NoForm, ctx_ticket |-> 0, ctx_action |-> None]

Render(template, form, pk, action) ==
    [response |-> "render", location |-> 0, template |-> template,
     form |-> form, ctx_ticket |-> pk, ctx_action |-> action]

Plain(response) ==
    [response |-> response, location |-> 0, template |-> None,
     form |-> NoForm, ctx_ticket |-> 0, ctx_action |-> None]

\* what a view does: the response, the ticket row as the view leaves it, the
\* form it constructed and the forms it saved on the way
Result(out, ticket, built, saved) ==
    [out |-> out, ticket |-> ticket, built |-> built, saved |-> saved]

\* ------------------------------------------------------------------ TicketCommentView
\* the check with the comparison of the action turned round
CommentDenied_eq(user, action) == ~is_admin(user) /\ action = "comment"

\* line 225: the permission check
CommentDenied(user, action) == ~is_admin(user) /\ action # "comment"

\* the template choice that forgets "reopened"
Template_closed_only(action) ==
    IF action = "closed"
    THEN "tickets/close_reopen_ticket_form.html"
    ELSE "tickets/comment_form.html"

\* lines 228-231
Template(action) ==
    IF action \in {"closed", "reopened"}
    THEN "tickets/close_reopen_ticket_form.html"
    ELSE "tickets/comment_form.html"

\* lines 234-244: the bound form of a POST
PostForm(action) ==
    IF action \in {"closed", "reopened"} THEN [class |-> "CloseTicketForm", bound |-> TRUE]
    ELSE IF action = "comment" THEN [class |-> "CommentTicketForm", bound |-> TRUE]
    ELSE IF action = "accept" THEN [class |-> "AcceptTicketForm", bound |-> TRUE]
    ELSE [class |-> "AssignTicketForm", bound |-> TRUE]

\* lines 254-263: the unbound form of a request without POST data
GetForm(action) ==
    IF action \in {"closed", "reopened"} THEN [class |-> "CloseTicketForm", bound |-> FALSE]
    ELSE IF action = "comment" THEN [class |-> "CommentTicketForm", bound |-> FALSE]
    ELSE IF action = "accept" THEN [class |-> "AcceptTicketForm", bound |-> FALSE]
    ELSE [class |-> "AssignTicketForm", bound |-> FALSE]

\* lines 260-262: in the final else branch the local `action` is rewritten
GetAction(ticket, action) ==
    IF action \notin {"closed", "reopened", "comment", "accept"}
       /\ ticket.assigned_to # None /\ action = "assign"
    THEN "re-assign"
    ELSE action

\* the POST branch with the return of line 248 missing: a valid form is
\* saved and the view falls through to the render of line 265
CommentPost_no_return(ticket, pk, user, action, post) ==
    LET form == PostForm(action) IN
    IF is_valid(form, post)
    THEN Result(Render(Template(action), form, pk, action),
                FormSave(form, ticket, user, action, post), form, <<form.class>>)
    ELSE Result(Render(Template(action), form, pk, action), ticket, form, <<>>)

\* lines 233-252 and 265: request.POST is truthy. The render of line 250 is
\* not returned, so an invalid form falls through to the render of line 265.
CommentPost(ticket, pk, user, action, post) ==
    LET form == PostForm(action) IN
    IF is_valid(form, post)
    THEN Result(Redirect(pk), FormSave(form, ticket, user, action, post),
                form, <<form.class>>)
    ELSE Result(Render(Template(action), form, pk, action), ticket, form, <<>>)

\* lines 253-265: request.POST is falsy
CommentGet(ticket, pk, user, action) ==
    LET form == GetForm(action) IN
    Result(Render(Template(action), form, pk, GetAction(ticket, action)),
           ticket, form, <<>>)

\* lines 225-265, for the ticket the lookup of line 220 found
CommentBody(ticket, pk, user, action, request) ==
    IF CommentDenied(user, action)
    THEN Result(Redirect(pk), ticket, NoForm, <<>>)
    ELSE IF ~request.POST.empty
         THEN CommentPost(ticket, pk, user, action, request.POST)
         ELSE CommentGet(ticket, pk, user, action)

\* a result that is a response only
Only(out) == Result(out, None, NoForm, <<>>)

Handled(view, user, pk, action, request, r) ==
    [view |-> view, user |-> user, pk |-> pk, action |-> action,
     method |-> request.method, post |-> PostKind(request.POST),
     response |-> r.out.response, location |-> r.out.location,
     template |-> r.out.template, form |-> r.out.form,
     ctx_ticket |-> r.out.ctx_ticket, ctx_action |-> r.out.ctx_action,
     built |-> r.built, saved |-> r.saved]

\* the history of saves made on requests of users who are not admins
Logged(user, r) ==
    IF is_admin(user)
    THEN saved_by_others
    ELSE saved_by_others \cup {r.saved[i] : i \in 1 .. Len(r.saved)}

\* lines 217-265
TicketCommentView ==
    \E user \in Users, pk \in Pks, action \in Actions, request \in Requests :
        /\ \/ /\ pk \notin DOMAIN tickets          \* Ticket.DoesNotExist
              /\ last' = Handled("TicketCommentView", user, pk, action, request,
                                 Only(Plain("redirect_list")))
              /\ UNCHANGED <<tickets, saved_by_others>>
           \/ /\ pk \in DOMAIN tickets
              /\ LET r == CommentBody(tickets[pk], pk, user, action, request) IN
                 /\ last' = Handled("TicketCommentView", user, pk, action, request, r)
                 /\ tickets' = [tickets EXCEPT ![pk] = r.ticket]
                 /\ saved_by_others' = Logged(user, r)
        /\ UNCHANGED <<db, query, listing>>

\* ------------------------------------------------------------------ TicketUpdateView
\* the check with the comparison of the submitter turned round
UpdateDenied_ne(user, ticket) == ~(user # ticket.submitted_by \/ is_admin(user))

\* line 200
UpdateDenied(user, ticket) == ~(user = ticket.submitted_by \/ is_admin(user))

\* lines 205-213: views.py never imports or defines TicketForm (lines 15-20
\* import the four follow-up forms only), so both branches raise NameError
\* at the first use of the name and the request ends as a server error.
UpdateForm(ticket, request) == Result(Plain("server_error"), ticket, NoForm, <<>>)

\* lines 198-213 for an existing row
UpdateBody(ticket, pk, user, request) ==
    IF UpdateDenied(user, ticket)
    THEN Result(Redirect(pk), ticket, NoForm, <<>>)
    ELSE UpdateForm(ticket, request)

\* lines 195-213; pk = 0 stands for pk=None (`if pk:` is false)
TicketUpdateView ==
    \E user \in Users, pk \in {0} \cup Pks, request \in Requests :
        /\ \/ /\ pk = 0
              /\ LET ticket == [submitted_by |-> user, assigned_to |-> None,
                                status |-> "new"]
                     r == UpdateForm(ticket, request) IN
                 /\ last' = Handled("TicketUpdateView", user, pk, None, request, r)
                 /\ saved_by_others' = Logged(user, r)
              /\ tickets' = tickets
           \/ /\ pk # 0 /\ pk \notin DOMAIN tickets   \* get_object_or_404
              /\ last' = Handled("TicketUpdateView", user, pk, None, request,
                                 Only(Plain("not_found")))
              /\ UNCHANGED <<tickets, saved_by_others>>
           \/ /\ pk \in DOMAIN tickets
              /\ LET r == UpdateBody(tickets[pk], pk, user, request) IN
                 /\ last' = Handled("TicketUpdateView", user, pk, None, request, r)
                 /\ tickets' = [tickets EXCEPT ![pk] = r.ticket]
                 /\ saved_by_others' = Logged(user, r)
        /\ UNCHANGED <<db, query, listing>>

\* lines 195 and 217: login_required sends an anonymous request to the login
\* page and neither view body runs
login_required ==
    \E request \in Requests :
        /\ last' = Handled("login_required", Anonymous, 0, None, request,
                           Only(Plain("redirect_login")))
        /\ UNCHANGED <<tickets, saved_by_others, db, query, listing>>

\* ------------------------------------------------------------------ TicketListView
\* the characters of a title, a description and a search term
Alphabet == {"a", "A", "b"}
Strs(n) == UNION {[1 .. k -> Alphabet] : k \in 0 .. n}

\* the rows of Ticket.objects that get_queryset reads
Rows ==
    [title : Strs(MaxLen), description : Strs(MaxLen - 1),
     submitted_by : {"alice", "bob"}, assigned_to : {None, "alice"},
     ticket_type : {"bug", "feature"}, status : {"new", "closed", "duplicate"}]

\* request.GET["q"] and the URL kwargs; None and "" are both falsy
Queries ==
    [q : Strs(MaxLen), username : {None, "alice"},
     what : {None, "submitted_by", "assigned_to"},
     type : {None, "bug"}, status : {None, "closed", "open"}]

\* the case folding of icontains
Lower(c) == IF c = "A" THEN "a" ELSE c
LowerStr(str) == [i \in 1 .. Len(str) |-> Lower(str[i])]

Contains(str, sub) ==
    \E i \in 0 .. (Len(str) - Len(sub)) : SubSeq(str, i + 1, i + Len(sub)) = sub

\* the field lookup __icontains
icontains(field, term) == Contains(LowerStr(field), LowerStr(term))

\* lines 160-163
FilterQ(qs, q) ==
    IF q # <<>>
    THEN {pk \in qs : icontains(db[pk].description, q) \/ icontains(db[pk].title, q)}
    ELSE qs

\* lines 164-173; a row with no assignee matches no assigned_to__username
FilterUser(qs, username, what) ==
    IF username # None
    THEN IF what = "submitted_by"
         THEN {pk \in qs : db[pk].submitted_by = username}
         ELSE IF what = "assigned_to"
         THEN {pk \in qs : db[pk].assigned_to = username}
         ELSE {pk \in qs : db[pk].submitted_by = username
                              \/ db[pk].assigned_to = username}
    ELSE qs

\* lines 175-176
FilterType(qs, ticket_type) ==
    IF ticket_type # None
    THEN {pk \in qs : db[pk].ticket_type = ticket_type}
    ELSE qs

\* line 179
closed_codes == {"closed", "split", "duplicate"}

\* lines 178-187: both branches start again from Ticket.objects, not from
\* the queryset built so far
FilterStatus(qs, ticket_status) ==
    IF ticket_status # None
    THEN IF ticket_status = "closed"
         THEN {pk \in DOMAIN db : db[pk].status \in closed_codes}
         ELSE {pk \in DOMAIN db : db[pk].status \notin closed_codes}
    ELSE qs

\* lines 150-192. A queryset is the set of its rows' pks (its order, always
\* -created_on, is left out). TicketFilter (line 190) narrows the queryset
\* by GET parameters of its own: any subset may remain.
get_queryset ==
    /\ listing.pc = "request"
    /\ LET t0 == DOMAIN db
           t1 == FilterQ(t0, query.q)
           t2 == FilterUser(t1, query.username, query.what)
           t3 == FilterType(t2, query.type)
           t4 == FilterStatus(t3, query.status)
       IN \E qs \in SUBSET t4 :
              listing' = [pc |-> "done", tickets |-> t4, qs |-> qs]
    /\ UNCHANGED <<tickets, last, saved_by_others, db, query>>

\* ------------------------------------------------------------------ specification
NoQuery == [q |-> <<>>, username |-> None, what |-> None, type |-> None,
            status |-> None]
NoListing == [pc |-> "idle", tickets |-> {}, qs |-> {}]

Init ==
    /\ tickets = [pk \in TicketIds |->
                     [submitted_by |-> Submitter(pk), assigned_to |-> None,
                      status |-> "new"]]
    /\ last = NoRequest
    /\ saved_by_others = {}
    /\ db = {}
    /\ query = NoQuery
    /\ listing = NoListing

Next == login_required \/ TicketUpdateView \/ TicketCommentView

Spec == Init /\ [][Next]_vars

\* get_queryset as a function of the table and the request
InitList ==
    /\ tickets = <<>>
    /\ last = NoRequest
    /\ saved_by_others = {}
    /\ db \in [TicketIds -> Rows]
    /\ query \in Queries
    /\ listing = [pc |-> "request", tickets |-> {}, qs |-> {}]

NextList == get_queryset

SpecList == InitList /\ [][NextList]_vars

\* ------------------------------------------------------------------ claims
CloseReopen == {"closed", "reopened"}

\* the body of TicketCommentView ran for a row of the table
InComment == last.view = "TicketCommentView" /\ last.pk \in DOMAIN tickets
\* ... and the request passed the check of line 225
Permitted == is_admin(last.user) \/ last.action = "comment"

\* C1: in TicketCommentView, for an existing ticket, any method and any action
\* other than "comment", a request of a user who is no admin is answered with
\* a redirect to the ticket's detail URL and no form is constructed or saved;
\* so no request of a non-admin has ever saved an accept, assign, closed or
\* reopened form.
C1_NonAdminRedirected ==
    /\ (InComment /\ ~is_admin(last.user) /\ last.action # "comment")
          => /\ last.response = "redirect_detail"
             /\ last.location = last.pk
             /\ last.built = NoForm
             /\ last.saved = <<>>
    /\ saved_by_others \subseteq {"CommentTicketForm"}

C1_Witness ==
    /\ InComment /\ ~is_admin(last.user) /\ last.action = "accept"
    /\ last.method = "POST" /\ last.post = "valid"
    /\ last.response = "redirect_detail"
    /\ saved_by_others = {"CommentTicketForm"}

\* C2: in TicketUpdateView with the pk of an existing ticket, a request (GET
\* or POST) of a user who is neither the ticket's submitter nor an admin is
\* answered with a redirect to the ticket's detail URL, no form is built or
\* saved and the ticket row is left as it was; whatever this view saves for
\* an existing ticket, it saves for the submitter or an admin.
C2_OutsiderRedirected ==
    [][(/\ last'.view = "TicketUpdateView"
        /\ last'.pk \in DOMAIN tickets)
          => /\ (last'.user # tickets[last'.pk].submitted_by /\ ~is_admin(last'.user))
                   => /\ last'.response = "redirect_detail"
                      /\ last'.location = last'.pk
                      /\ last'.built = NoForm
                      /\ last'.saved = <<>>
                      /\ tickets' = tickets
             /\ last'.saved # <<>>
                   => (last'.user = tickets[last'.pk].submitted_by \/ is_admin(last'.user))
      ]_vars

C2_Witness ==
    /\ last.view = "TicketUpdateView" /\ last.pk \in DOMAIN tickets
    /\ last.user # tickets[last.pk].submitted_by /\ ~is_admin(last.user)
    /\ last.method = "POST" /\ last.post = "valid"
    /\ last.response = "redirect_detail"

\* C4: in TicketCommentView, for a request that passes the permission check,
\* the form class is the same on GET and on POST and is decided by the action:
\* CloseTicketForm for "closed" and "reopened", CommentTicketForm for
\* "comment", AcceptTicketForm for "accept", and AssignTicketForm only when
\* the action is "assign".
C4_FormByAction ==
    (InComment /\ Permitted)
       => /\ last.built.class = "CloseTicketForm" <=> last.action \in CloseReopen
          /\ last.built.class = "CommentTicketForm" <=> last.action = "comment"
          /\ last.built.class = "AcceptTicketForm" <=> last.action = "accept"
          /\ last.built.class = "AssignTicketForm" <=> last.action = "assign"

\* C5: in TicketCommentView a permitted POST whose form is valid saves the
\* form exactly once and is answered with a redirect to the ticket's detail
\* URL, never with a rendered form.
C5_ValidPostSavesOnce ==
    (InComment /\ Permitted /\ last.method = "POST" /\ last.post = "valid")
       => /\ Len(last.saved) = 1
          /\ last.saved[1] = last.built.class
          /\ last.built.bound
          /\ last.response = "redirect_detail"
          /\ last.location = last.pk
          /\ last.form = NoForm

C5_Witness ==
    /\ InComment /\ Permitted /\ last.method = "POST" /\ last.post = "valid"
    /\ last.action = "accept" /\ last.saved = <<"AcceptTicketForm">>
    /\ tickets[last.pk].status = "accepted"

\* a row meets every criterion the request supplies
Matches(row, request) ==
    /\ request.q # <<>>
          => (icontains(row.title, request.q) \/ icontains(row.description, request.q))
    /\ request.username # None
          => CASE request.what = "submitted_by" -> row.submitted_by = request.username
               [] request.what = "assigned_to" -> row.assigned_to = request.username
               [] OTHER -> (row.submitted_by = request.username
                               \/ row.assigned_to = request.username)
    /\ request.type # None => row.ticket_type = request.type
    /\ request.status # None
          => (request.status = "closed" <=> row.status \in closed_codes)

\* C3: before the TicketFilter step, the queryset of get_queryset holds
\* exactly the tickets that meet all the criteria supplied together (q in
\* title or description without regard to case, the username by `what`, the
\* ticket type, the status).
C3_AllCriteria ==
    listing.pc = "done"
       => listing.tickets = {pk \in DOMAIN db : Matches(db[pk], query)}

TemplateFor(action) ==
    IF action \in CloseReopen
    THEN "tickets/close_reopen_ticket_form.html"
    ELSE "tickets/comment_form.html"

\* C6 as stated: in TicketCommentView (for an existing ticket) form.save is never called on a GET nor
\* on a POST whose form is invalid; in both cases the ticket is left as it
\* was and the response is the rendered form template (close_reopen for
\* "closed" and "reopened", comment_form otherwise) carrying the form, the
\* ticket and the action, the form of an invalid POST being the bound one.
C6_Original ==
    [][(/\ last'.view = "TicketCommentView"
        /\ last'.pk \in DOMAIN tickets
        /\ last'.method = "GET" \/ (last'.method = "POST" /\ last'.post = "invalid"))
          => /\ last'.saved = <<>>
             /\ tickets' = tickets
             /\ last'.response = "render"
             /\ last'.template = TemplateFor(last'.action)
             /\ last'.form = last'.built /\ last'.form # NoForm
             /\ last'.ctx_ticket = last'.pk
             /\ last'.ctx_action = last'.action
             /\ last'.post = "invalid" => last'.form.bound
      ]_vars

\* C6, amended: the same for an existing ticket and a request that passes the
\* permission check, a POST without data counting as a GET; the action
\* carried is the request's, except "re-assign" when an unbound form is
\* rendered for "assign" on a ticket that has an assignee; the form carried
\* is bound exactly for the invalid POST.
C6_RenderedUnsaved ==
    [][(/\ last'.view = "TicketCommentView"
        /\ last'.pk \in DOMAIN tickets
        /\ is_admin(last'.user) \/ last'.action = "comment"
        /\ last'.post # "valid")
          => /\ last'.saved = <<>>
             /\ tickets' = tickets
             /\ last'.response = "render"
             /\ last'.template = TemplateFor(last'.action)
             /\ last'.form = last'.built /\ last'.form # NoForm
             /\ last'.ctx_ticket = last'.pk
             /\ last'.ctx_action =
                   IF /\ last'.action = "assign" /\ last'.post = "empty"
                      /\ tickets[last'.pk].assigned_to # None
                   THEN "re-assign"
                   ELSE last'.action
             /\ last'.form.bound <=> last'.post = "invalid"
      ]_vars

C6_Witness ==
    /\ InComment /\ Permitted
    /\ last.method = "POST" /\ last.post = "invalid" /\ last.action = "reopened"
    /\ last.response = "render" /\ last.form.bound
    /\ last.template = "tickets/close_reopen_ticket_form.html"
    /\ tickets[last.pk].status = "closed"

====
